---- MODULE Spec2Model ----
(***************************************************************************)
(* wt-manager: the interactive selector (src/src/tui.rs), the worktree     *)
(* orchestrator (src/src/worktree.rs), the porcelain parser and backend    *)
(* calls (src/src/git.rs), the project registry (src/src/db.rs) and the    *)
(* entry point (src/src/main.rs).                                          *)
(*                                                                         *)
(* Strings are sequences of one-character strings, so that prefix tests,   *)
(* splitting, trimming and case folding are computed, not assumed.         *)
(* Filesystem paths handed to the OS are sequences of components.          *)
(***************************************************************************)
EXTENDS Integers, Sequences, FiniteSets, TLC

VARIABLES
  pc,          \* position of the process: "start", "orch", "selecting", "matched", "done"
  mode,        \* which selector runs: "none", "worktree", "project"
  repo,        \* repository root of the invocation (a string), <<>> outside a repository
  argBranch,   \* the branch argument handed to handle_worktree by main
  worktrees,   \* Vec<WorktreeInfo> of show_worktree_selector
  projects,    \* Vec<ProjectInfo> of show_project_selector
  items,       \* the candidate labels of the session
  input,       \* the query of run_input_selector
  lastKey,     \* the last event read by event::read()
  action,      \* the SelectorAction the session ended with
  terminal,    \* the terminal: raw mode and alternate screen on or off
  listing,     \* the lines `git worktree list --porcelain` gave the selector
  fs,          \* directories that exist on disk (paths as component sequences)
  wts,         \* worktrees the backend has added: records [path, branch]
  registry,    \* db.json: the set of ProjectInfo records (key = path)
  clock,       \* SystemTime::now() in seconds
  dbFault,     \* the registry file cannot be read or written
  log,         \* what the current invocation did: backend calls, writes, messages
  ret,         \* the Result of the current invocation: "none", "Ok", "Err"
  prev,        \* summary of the previous handle_worktree call
  parseIn,     \* input of parse_worktree_list (a sequence of lines)
  parseOut,    \* its result
  procs,       \* two invocations sharing db.json: position, loaded Database, call
  overlap,     \* some invocation loaded db.json while the other held a loaded copy
  pathIn,      \* arguments of the path functions: two repository paths and a branch
  pathOut      \* their results

vars == <<pc, mode, repo, argBranch, worktrees, projects, items, input, lastKey,
          action, terminal, listing, fs, wts, registry, clock, dbFault, log, ret, prev, parseIn, parseOut,
          procs, overlap, pathIn, pathOut>>

-----------------------------------------------------------------------------
(* Bounds *)

MaxInput == 2      \* longest query built by typing characters
MaxLines == 3      \* longest line sequence handed to the parser
MaxClock == 2      \* the clock stops advancing here

-----------------------------------------------------------------------------
(* Strings *)

None == <<>>
Some(v) == <<v>>
IsSome(o) == o # <<>>
Unwrap(o) == o[1]

UpperChars == <<"A","B","C","D","E","F","G","H","I","J","K","L","M",
                "N","O","P","Q","R","S","T","U","V","W","X","Y","Z">>
LowerChars == <<"a","b","c","d","e","f","g","h","i","j","k","l","m",
                "n","o","p","q","r","s","t","u","v","w","x","y","z">>

IsUpper(c) == \E i \in 1..26 : UpperChars[i] = c

ToAsciiLowercase(c) ==
  IF IsUpper(c) THEN LowerChars[CHOOSE i \in 1..26 : UpperChars[i] = c] ELSE c

\* str::eq_ignore_ascii_case
EqIgnoreAsciiCase(a, b) ==
  /\ Len(a) = Len(b)
  /\ \A i \in 1..Len(a) : ToAsciiLowercase(a[i]) = ToAsciiLowercase(b[i])

\* str::starts_with
StartsWith(s, p) ==
  /\ Len(p) <= Len(s)
  /\ SubSeq(s, 1, Len(p)) = p

Drop(s, n) == SubSeq(s, n + 1, Len(s))

\* str::trim_start_matches: removes the prefix repeatedly
RECURSIVE TrimStartMatches(_, _)
TrimStartMatches(s, p) ==
  IF p # <<>> /\ StartsWith(s, p) THEN TrimStartMatches(Drop(s, Len(p)), p) ELSE s

\* s.split(sep).next(): the text before the first occurrence of sep
RECURSIVE SplitFirst(_, _)
SplitFirst(s, sep) ==
  IF s = <<>> \/ StartsWith(s, sep) THEN <<>>
  ELSE <<Head(s)>> \o SplitFirst(Tail(s), sep)

\* Path::file_name of a path string: the text after the last "/"
RECURSIVE FileName(_)
FileName(s) ==
  IF \E i \in 1..Len(s) : s[i] = "/"
  THEN FileName(Drop(s, CHOOSE i \in 1..Len(s) : s[i] = "/"))
  ELSE s

\* the components of a relative path string: split on "/", empty ones dropped
RECURSIVE Components(_)
Components(s) ==
  IF s = <<>> THEN <<>>
  ELSE IF Head(s) = "/" THEN Components(Tail(s))
  ELSE LET c == SplitFirst(s, <<"/">>) IN <<c>> \o Components(Drop(s, Len(c)))

Prefixes(p) == { SubSeq(p, 1, n) : n \in 1..Len(p) }

-----------------------------------------------------------------------------
(* git.rs: parse_worktree_list *)

WORKTREE_ == <<"w","o","r","k","t","r","e","e"," ">>
BRANCH_ == <<"b","r","a","n","c","h"," ">>
BARE == <<"b","a","r","e">>
DETACHED == <<"d","e","t","a","c","h","e","d">>
REFS_HEADS == <<"r","e","f","s","/","h","e","a","d","s","/">>

WorktreeInfo(p, b, m) == [path |-> p, branch |-> b, is_main |-> m]

ParseInit == [worktrees |-> <<>>, current_path |-> None, current_branch |-> None,
              is_main |-> FALSE]

\* `if let (Some(path), Some(branch)) = (current_path.take(), current_branch.take())`:
\* both options are emptied; the record is pushed only when both were set
FlushTaken(st) ==
  [st EXCEPT !.worktrees =
               IF IsSome(st.current_path) /\ IsSome(st.current_branch)
               THEN Append(@, WorktreeInfo(Unwrap(st.current_path),
                                           Unwrap(st.current_branch), st.is_main))
               ELSE @,
             !.current_path = None,
             !.current_branch = None]

BranchShortName(line) ==
  TrimStartMatches(TrimStartMatches(line, BRANCH_), REFS_HEADS)

ParseLine(st, line) ==
  IF StartsWith(line, WORKTREE_)
  THEN [FlushTaken(st) EXCEPT !.current_path = Some(TrimStartMatches(line, WORKTREE_)),
                              !.is_main = FALSE]
  ELSE IF StartsWith(line, BRANCH_)
  THEN [st EXCEPT !.current_branch = Some(BranchShortName(line))]
  ELSE IF StartsWith(line, BARE)
  THEN [st EXCEPT !.is_main = TRUE]
  ELSE IF line = <<>>
  THEN FlushTaken(st)
  ELSE st

RECURSIVE ParseLines(_, _)
ParseLines(st, lines) ==
  IF lines = <<>> THEN st ELSE ParseLines(ParseLine(st, Head(lines)), Tail(lines))

ParseWorktreeList(lines) == FlushTaken(ParseLines(ParseInit, lines)).worktrees

-----------------------------------------------------------------------------
(* tui.rs: the fuzzy matcher used by run_input_selector.                   *)
(* SkimMatcherV2::default() is the fuzzy_matcher crate's matcher: smart    *)
(* case (a pattern holding an upper-case letter is matched case            *)
(* sensitively, any other pattern case insensitively), a candidate matches *)
(* when the pattern is a subsequence of it, and the empty pattern matches  *)
(* everything with score 0.  The score follows the crate's scheme (a       *)
(* reward per matched character, bonuses for the head and for consecutive  *)
(* matches, penalties for gaps) on the leftmost alignment.                 *)

SCORE_MATCH == 16
GAP_START == 3
GAP_EXTENSION == 1
BONUS_HEAD == 8
BONUS_CONSECUTIVE == 4

ContainsUpper(s) == \E i \in 1..Len(s) : IsUpper(s[i])

CharEqual(a, b, case_sensitive) ==
  IF case_sensitive THEN a = b ELSE ToAsciiLowercase(a) = ToAsciiLowercase(b)

\* the leftmost positions of pattern in choice from position `from` on, or
\* <<0>> when pattern is no subsequence of the rest
RECURSIVE MatchPositions(_, _, _, _)
MatchPositions(choice, pattern, from, cs) ==
  IF pattern = <<>> THEN <<>>
  ELSE IF \E i \in from..Len(choice) : CharEqual(choice[i], Head(pattern), cs)
  THEN LET i == CHOOSE j \in from..Len(choice) :
                  /\ CharEqual(choice[j], Head(pattern), cs)
                  /\ \A k \in from..(j - 1) : ~CharEqual(choice[k], Head(pattern), cs)
           rest == MatchPositions(choice, Tail(pattern), i + 1, cs)
       IN IF rest = <<0>> THEN <<0>> ELSE <<i>> \o rest
  ELSE <<0>>

RECURSIVE PositionsScore(_, _)
PositionsScore(pos, last) ==
  IF pos = <<>> THEN 0
  ELSE LET i == Head(pos)
           gap == i - last - 1
           here == SCORE_MATCH
                   + (IF i = 1 THEN BONUS_HEAD ELSE 0)
                   + (IF last > 0 /\ gap = 0 THEN BONUS_CONSECUTIVE ELSE 0)
                   - (IF gap > 0 THEN GAP_START + GAP_EXTENSION * (gap - 1) ELSE 0)
       IN here + PositionsScore(Tail(pos), i)

\* matcher.fuzzy_match(choice, pattern) -> Option<i64>
FuzzyMatch(choice, pattern) ==
  IF pattern = <<>> THEN Some(0)
  ELSE LET pos == MatchPositions(choice, pattern, 1, ContainsUpper(pattern))
       IN IF pos = <<0>> THEN None ELSE Some(PositionsScore(pos, 0))

\* an insertion that puts an element before the elements of equal score
RECURSIVE InsertByScore_Unstable(_, _)
InsertByScore_Unstable(sorted, x) ==
  IF sorted = <<>> THEN <<x>>
  ELSE IF Head(sorted).score > x.score
       THEN <<Head(sorted)>> \o InsertByScore_Unstable(Tail(sorted), x)
       ELSE <<x>> \o sorted

\* Vec::sort_by(|a, b| b.1.cmp(&a.1)): stable, descending by score
RECURSIVE InsertByScore(_, _)
InsertByScore(sorted, x) ==
  IF sorted = <<>> THEN <<x>>
  ELSE IF Head(sorted).score >= x.score
       THEN <<Head(sorted)>> \o InsertByScore(Tail(sorted), x)
       ELSE <<x>> \o sorted

RECURSIVE SortByScoreDesc(_)
SortByScoreDesc(ms) ==
  IF ms = <<>> THEN <<>>
  ELSE InsertByScore(SortByScoreDesc(SubSeq(ms, 1, Len(ms) - 1)), ms[Len(ms)])

\* items.iter().filter_map(|item| fuzzy_match(item, input).map(|s| (item, s)))
RECURSIVE FilterMap(_, _)
FilterMap(its, q) ==
  IF its = <<>> THEN <<>>
  ELSE LET m == FuzzyMatch(Head(its), q)
       IN (IF IsSome(m) THEN <<[item |-> Head(its), score |-> Unwrap(m)]>> ELSE <<>>)
          \o FilterMap(Tail(its), q)

\* a filter that lists the candidates last to first whatever the query
FilteredItems_Reversed(its, q) ==
  LET f == FilterMap(its, q) IN [i \in 1..Len(f) |-> f[Len(f) + 1 - i]]

\* filtered_items of the loop body
FilteredItems(its, q) ==
  IF q = <<>> THEN [i \in 1..Len(its) |-> [item |-> its[i], score |-> 0]]
  ELSE SortByScoreDesc(FilterMap(its, q))

\* item.split(" (").next().unwrap_or(item)
StripAnnotation(item) == SplitFirst(item, <<" ", "(">>)

\* the item the help line and Ctrl+X look for
ExactMatches(its, q) ==
  { i \in 1..Len(its) : EqIgnoreAsciiCase(StripAnnotation(its[i]), q) }

HasExactMatch(its, q) == ExactMatches(its, q) # {}

-----------------------------------------------------------------------------
(* tui.rs: the help line drawn in each iteration of the loop *)

\* help_text of the draw closure, as the sequence of messages it joins
HelpLine(its, filtered, allow_create, allow_delete, q) ==
  IF allow_create /\ allow_delete
  THEN IF q = <<>>
       THEN <<"help_search", "help_tab", "help_enter_select", "help_ctrl_b_create",
              "help_ctrl_x_delete", "help_exact_match", "help_cancel">>
       ELSE IF filtered = <<>>
       THEN <<"help_create_new_branch", "help_backspace", "help_cancel">>
       ELSE IF HasExactMatch(its, q)
       THEN <<"help_tab", "help_enter_select", "help_ctrl_b_create",
              "help_ctrl_x_delete", "help_backspace", "help_cancel">>
       ELSE <<"help_tab", "help_enter_select", "help_ctrl_b_create",
              "help_backspace", "help_cancel">>
  ELSE IF allow_create
  THEN IF q = <<>>
       THEN <<"help_search", "help_tab", "help_enter_select", "help_ctrl_b_create",
              "help_cancel">>
       ELSE IF filtered = <<>>
       THEN <<"help_create_new_branch", "help_backspace", "help_cancel">>
       ELSE <<"help_tab", "help_enter_select", "help_ctrl_b_create",
              "help_backspace", "help_cancel">>
  ELSE <<"help_search", "help_tab", "help_enter_select", "help_cancel">>

-----------------------------------------------------------------------------
(* tui.rs: run_input_selector, one key event *)

CREATE_NEW == <<"_","_","C","R","E","A","T","E","_","N","E","W","_","_">>

Select(t) == [tag |-> "Select", text |-> t]
Delete(t) == [tag |-> "Delete", text |-> t]
Cancel == [tag |-> "Cancel", text |-> <<>>]
NoAction == [tag |-> "None", text |-> <<>>]

Continue(q) == [input |-> q, result |-> None]
Break(q, a) == [input |-> q, result |-> Some(a)]

\* KeyCode::Char('b') with CONTROL
CtrlBKey(allow_create, q) ==
  IF allow_create /\ q # <<>> THEN Break(q, Select(CREATE_NEW \o q)) ELSE Continue(q)

\* Ctrl+X without the exact-match test
CtrlXKey_NoExactCheck(its, allow_delete, q) ==
  IF allow_delete /\ q # <<>> THEN Break(q, Delete(q)) ELSE Continue(q)

\* KeyCode::Char('x') with CONTROL
CtrlXKey(its, allow_delete, q) ==
  IF allow_delete /\ q # <<>> /\ HasExactMatch(its, q)
  THEN LET i == CHOOSE j \in ExactMatches(its, q) : \A k \in ExactMatches(its, q) : j <= k
       IN Break(q, Delete(StripAnnotation(its[i])))
  ELSE Continue(q)

\* Tab completing to the whole label, annotation included
TabKey_KeepAnnotation(filtered, q) ==
  IF filtered # <<>> THEN Continue(filtered[1].item) ELSE Continue(q)

\* KeyCode::Tab
TabKey(filtered, q) ==
  IF filtered # <<>> THEN Continue(StripAnnotation(filtered[1].item)) ELSE Continue(q)

\* Enter submitting the typed text instead of the top match
EnterKey_RawInput(filtered, q) ==
  IF filtered # <<>> THEN Break(q, Select(q)) ELSE Continue(q)

\* KeyCode::Enter
EnterKey(filtered, q) ==
  IF filtered # <<>> THEN Break(q, Select(StripAnnotation(filtered[1].item)))
  ELSE Continue(q)

\* KeyCode::Backspace: String::pop
BackspaceKey(q) == Continue(IF q = <<>> THEN q ELSE SubSeq(q, 1, Len(q) - 1))

Key(code, ch, ctrl, kind) == [code |-> code, ch |-> ch, ctrl |-> ctrl, kind |-> kind]
NoKey == Key("None", "", FALSE, "Press")

\* a key match in which Escape is not a terminating key
OnEvent_EscIgnored(its, allow_create, allow_delete, q, key) ==
  IF key.code = "Char" /\ key.ch = "c" /\ key.ctrl /\ key.kind = "Press"
  THEN Break(q, Cancel)
  ELSE Continue(q)

\* the body of `if let Event::Key(key) = event::read()?`; code "Resize" stands
\* for the events that are no key events
OnEvent(its, allow_create, allow_delete, q, key) ==
  IF key.code = "Resize" \/ key.kind # "Press" THEN Continue(q)
  ELSE IF key.code = "Char" /\ key.ch = "c" /\ key.ctrl THEN Break(q, Cancel)
  ELSE IF key.code = "Char" /\ key.ch = "b" /\ key.ctrl THEN CtrlBKey(allow_create, q)
  ELSE IF key.code = "Char" /\ key.ch = "x" /\ key.ctrl THEN CtrlXKey(its, allow_delete, q)
  ELSE IF key.code = "Esc" THEN Break(q, Cancel)
  ELSE IF key.code = "Char" THEN Continue(Append(q, key.ch))
  ELSE IF key.code = "Backspace" THEN BackspaceKey(q)
  ELSE IF key.code = "Tab" THEN TabKey(FilteredItems(its, q), q)
  ELSE IF key.code = "Enter" THEN EnterKey(FilteredItems(its, q), q)
  ELSE Continue(q)

-----------------------------------------------------------------------------
(* worktree.rs: path addressing *)

RepoA == <<"/","a","/","p">>
RepoB == <<"/","b","/","p">>
Repos == {RepoA, RepoB}

\* dirs::home_dir(), as path components
Home == << <<"h","o","m","e">>, <<"u">> >>
WT_DIR == <<"_","w","t">>

\* further repository paths handed to the path functions
RepoQ == <<"/","a","/","q">>
RepoP == <<"/","p">>
HashPaths == {RepoA, RepoB, RepoQ, RepoP}

\* a digest that is the same for every path
GetHashedName_Constant(repo_path) ==
  <<"c","c","f","0","4","a","c","f","6","2","4","1","2","4","5","1">>

\* hex::encode(&Sha256(path)[..8]), tabulated for the repository paths of the
\* model: the first 16 hex digits of the SHA-256 of "/a/p", "/b/p", "/a/q", "/p"
GetHashedName(repo_path) ==
  IF repo_path = RepoA
  THEN <<"c","c","f","0","4","a","c","f","6","2","4","1","2","4","5","1">>
  ELSE IF repo_path = RepoQ
  THEN <<"e","e","7","6","7","5","6","8","b","6","b","5","9","c","0","9">>
  ELSE IF repo_path = RepoP
  THEN <<"0","0","d","7","4","b","a","f","1","4","e","a","4","1","5","c">>
  ELSE <<"3","b","1","6","c","b","d","c","d","c","5","5","3","e","5","c">>

GetWorktreeBase(repo_path) ==
  Home \o <<WT_DIR, FileName(repo_path) \o <<"_">> \o GetHashedName(repo_path)>>

\* wt_base.join(branch): an absolute branch replaces the base
GetWorktreePath(repo_path, branch) ==
  IF StartsWith(branch, <<"/">>) THEN Components(branch)
  ELSE GetWorktreeBase(repo_path) \o Components(branch)

\* an existence test that never finds the directory
Exists_Never(files, path) == FALSE

\* Path::exists; the filesystem root always exists
Exists(files, path) == path = <<>> \/ path \in files

\* fs::create_dir_all
CreateDirAll(files, path) == files \cup Prefixes(path)

-----------------------------------------------------------------------------
(* db.rs: the registry, a map from the path string to ProjectInfo *)

EmptyMap == [k \in {} |-> 0]

ProjectInfo(p, now) == [path |-> p, name |-> FileName(p), last_accessed |-> now]

\* a save that reports success and inserts nothing
SaveProject_NoInsert(reg, repo_path, now, fault) ==
  [ret |-> "Ok", reg |-> reg, wrote |-> TRUE]

\* a save that writes a file holding the new record alone
SaveProject_Overwrite(reg, repo_path, now, fault) ==
  [ret |-> "Ok", reg |-> (repo_path :> ProjectInfo(repo_path, now)), wrote |-> TRUE]

\* save_project: load_db, insert, save_db
SaveProject(reg, repo_path, now, fault) ==
  IF fault THEN [ret |-> "Err", reg |-> reg, wrote |-> FALSE]
  ELSE [ret |-> "Ok", reg |-> (repo_path :> ProjectInfo(repo_path, now)) @@ reg,
        wrote |-> TRUE]

\* a touch that adds a record for a path it does not know
UpdateLastAccessed_Upsert(reg, repo_path, now, fault) ==
  [ret |-> "Ok", reg |-> (repo_path :> [path |-> repo_path, name |-> <<>>,
                                        last_accessed |-> now]) @@ reg,
   wrote |-> TRUE]

\* update_last_accessed: load_db, get_mut, save_db only when the key is known
UpdateLastAccessed(reg, repo_path, now, fault) ==
  IF fault THEN [ret |-> "Err", reg |-> reg, wrote |-> FALSE]
  ELSE IF repo_path \in DOMAIN reg
  THEN [ret |-> "Ok", reg |-> [reg EXCEPT ![repo_path].last_accessed = now],
        wrote |-> TRUE]
  ELSE [ret |-> "Ok", reg |-> reg, wrote |-> FALSE]

-----------------------------------------------------------------------------
(* What an invocation does, as a sequence of events *)

Ev(kind, path, text, ok) == [ev |-> kind, path |-> path, text |-> text, ok |-> ok]

HasEv(l, kind) == \E i \in 1..Len(l) : l[i].ev = kind
EvIndexes(l, kind) == { i \in 1..Len(l) : l[i].ev = kind }

-----------------------------------------------------------------------------
(* worktree.rs: provisioning *)

MarkerSets == { {}, {"pnpm-lock.yaml"}, {".nvmrc", "yarn.lock"} }
SetupOutcomes == {"success", "nonzero", "spawn_error"}

SetupCommands(markers) ==
  (IF ".nvmrc" \in markers THEN <<"nvm use">> ELSE <<>>)
  \o (IF "pnpm-lock.yaml" \in markers THEN <<"pnpm install">>
      ELSE IF "yarn.lock" \in markers THEN <<"yarn install">> ELSE <<>>)

\* provisioning that propagates a failure to spawn the shell
SetupResult_FailOnSpawn(outcome) == IF outcome = "spawn_error" THEN "Err" ELSE "Ok"

\* every arm of `match output` ends in Ok(())
SetupResult(outcome) == "Ok"

\* run_auto_setup
RunAutoSetup(worktree_path, markers, outcome) ==
  LET commands == SetupCommands(markers) IN
  IF commands = <<>>
  THEN [ret |-> "Ok", log |-> <<Ev("setup", worktree_path, commands, TRUE)>>]
  ELSE [ret |-> SetupResult(outcome),
        log |-> <<Ev("setup", worktree_path, commands, TRUE)>>
                \o (IF outcome = "success" THEN <<>>
                    ELSE <<Ev("setup_warning", worktree_path, <<outcome>>, FALSE)>>)]

\* switch_to_worktree
SwitchToWorktree(worktree_path, markers, outcome) ==
  LET s == RunAutoSetup(worktree_path, markers, outcome) IN
  [ret |-> s.ret, log |-> <<Ev("ready", worktree_path, <<>>, TRUE)>> \o s.log]

-----------------------------------------------------------------------------
(* git.rs: add_worktree, as the orchestrator sees it.  The backend decides  *)
(* the outcome; a branch name it cannot store (the empty name) never        *)
(* succeeds.  A successful add creates the directory.                       *)

BackendAccepts(branch) == branch # <<>>

AddWorktree(files, added, worktree_path, branch, create_branch, backend_ok) ==
  LET ok == backend_ok /\ BackendAccepts(branch) IN
  [ok |-> ok,
   fs |-> IF ok THEN CreateDirAll(files, worktree_path) ELSE files,
   wts |-> IF ok THEN added \cup {[path |-> worktree_path, branch |-> branch]} ELSE added,
   log |-> <<Ev(IF create_branch THEN "add_new" ELSE "add_existing",
                worktree_path, branch, ok)>>]

-----------------------------------------------------------------------------
(* worktree.rs: handle_worktree.  env: mkdir, add1, add2 (BOOLEAN),         *)
(* markers, outcome, now, fault.                                            *)

Outcome(files, added, reg, l, r) ==
  [fs |-> files, wts |-> added, reg |-> reg, log |-> l, ret |-> r]

\* the tail shared by both paths: update_last_accessed(repo_root)?; switch_to_worktree
TouchAndSwitch(files, added, reg, repo_root, target, l, env) ==
  LET t == UpdateLastAccessed(reg, repo_root, env.now, env.fault) IN
  IF t.ret = "Err"
  THEN Outcome(files, added, reg, l \o <<Ev("error", <<>>, <<"registry">>, FALSE)>>, "Err")
  ELSE LET s == SwitchToWorktree(target, env.markers, env.outcome) IN
       Outcome(files, added, t.reg,
               l \o <<Ev("touch", <<>>, repo_root, t.wrote)>> \o s.log
                 \o (IF s.ret = "Err" THEN <<Ev("error", <<>>, <<"setup">>, FALSE)>> ELSE <<>>),
               s.ret)

\* the add path without the new-branch attempt
AddPath_NoFallback(files, added, reg, repo_root, branch, target, env) ==
  LET wt_base == GetWorktreeBase(repo_root)
      f1 == CreateDirAll(files, wt_base)
      l1 == <<Ev("mkdir", wt_base, <<>>, TRUE)>>
      a1 == AddWorktree(f1, added, target, branch, FALSE, env.add1)
  IN IF a1.ok
     THEN TouchAndSwitch(a1.fs, a1.wts, reg, repo_root, target, l1 \o a1.log, env)
     ELSE Outcome(f1, added, reg,
                  l1 \o a1.log \o <<Ev("error", target, <<"add">>, FALSE)>>, "Err")

\* the add path going on after both attempts failed
AddPath_IgnoreFailure(files, added, reg, repo_root, branch, target, env) ==
  LET wt_base == GetWorktreeBase(repo_root)
      f1 == CreateDirAll(files, wt_base)
      l1 == <<Ev("mkdir", wt_base, <<>>, TRUE)>>
      a1 == AddWorktree(f1, added, target, branch, FALSE, env.add1)
      a2 == AddWorktree(f1, added, target, branch, TRUE, env.add2)
  IN IF a1.ok
     THEN TouchAndSwitch(a1.fs, a1.wts, reg, repo_root, target, l1 \o a1.log, env)
     ELSE TouchAndSwitch(a2.fs, a2.wts, reg, repo_root, target,
                         l1 \o a1.log \o a2.log, env)

\* lines 125-144: the base directory, then the two add attempts
AddPath(files, added, reg, repo_root, branch, target, env) ==
  LET wt_base == GetWorktreeBase(repo_root) IN
  IF ~env.mkdir
  THEN Outcome(files, added, reg, <<Ev("error", wt_base, <<"mkdir">>, FALSE)>>, "Err")
  ELSE
    LET f1 == CreateDirAll(files, wt_base)
        l1 == <<Ev("mkdir", wt_base, <<>>, TRUE)>>
        a1 == AddWorktree(f1, added, target, branch, FALSE, env.add1)
    IN IF a1.ok
       THEN TouchAndSwitch(a1.fs, a1.wts, reg, repo_root, target, l1 \o a1.log, env)
       ELSE LET a2 == AddWorktree(f1, added, target, branch, TRUE, env.add2) IN
            IF a2.ok
            THEN TouchAndSwitch(a2.fs, a2.wts, reg, repo_root, target,
                                l1 \o a1.log \o a2.log, env)
            ELSE Outcome(f1, added, reg,
                         l1 \o a1.log \o a2.log \o <<Ev("error", target, <<"add">>, FALSE)>>,
                         "Err")

\* the call is the first event of its own log
HandleWorktree(files, added, reg, repo_root, branch, env) ==
  LET worktree_path == GetWorktreePath(repo_root, branch)
      o == IF Exists(files, worktree_path)
           THEN TouchAndSwitch(files, added, reg, repo_root, worktree_path,
                               <<Ev("exists", worktree_path, branch, TRUE)>>, env)
           ELSE AddPath(files, added, reg, repo_root, branch, worktree_path, env)
  IN [o EXCEPT !.log = <<Ev("handle_worktree", repo_root, branch, TRUE)>> \o @]

\* the environments of one call, each distinguishable outcome once
Envs(now, fault) ==
  { e \in [mkdir : BOOLEAN, add1 : BOOLEAN, add2 : BOOLEAN, markers : MarkerSets,
           outcome : SetupOutcomes, now : {now}, fault : {fault}] :
      /\ e.add1 => e.add2
      /\ e.markers = {} => e.outcome = "success"
      /\ ~e.mkdir => e.add1 /\ e.markers = {} }

-----------------------------------------------------------------------------
(* tui.rs: the two selectors around the session *)

MAIN_MARKER == <<" ","(","m","a","i","n",")">>

\* show_worktree_selector, lines 87-93
WorktreeItems(wl) ==
  [i \in 1..Len(wl) |-> wl[i].branch \o (IF wl[i].is_main THEN MAIN_MARKER ELSE <<>>)]

\* show_project_selector, lines 32-35: "{name} ({path})"
ProjectItems(pl) ==
  [i \in 1..Len(pl) |-> pl[i].name \o <<" ","(">> \o pl[i].path \o <<")">>]

\* get_projects: the map's values in any order, then a stable sort by
\* last_accessed, most recent first
GetProjects(reg) ==
  LET n == Cardinality(DOMAIN reg) IN
  { [i \in 1..n |-> reg[f[i]]] :
      f \in { g \in [1..n -> DOMAIN reg] :
                /\ \A i, j \in 1..n : i # j => g[i] # g[j]
                /\ \A i, j \in 1..n :
                     i < j => reg[g[i]].last_accessed >= reg[g[j]].last_accessed } }

\* worktrees.iter().find(|wt| wt.branch.eq_ignore_ascii_case(name))
FindWorktree(wl, name) ==
  LET hits == { i \in 1..Len(wl) : EqIgnoreAsciiCase(wl[i].branch, name) } IN
  IF hits = {} THEN None ELSE Some(wl[CHOOSE i \in hits : \A j \in hits : i <= j])

Plan(kind, branch, wt) == [kind |-> kind, branch |-> branch, wt |-> wt]
NoWorktree == WorktreeInfo(<<>>, <<>>, FALSE)

\* show_worktree_selector, lines 98-144: what a Select leads to
SelectPlan(wl, text) ==
  IF text = <<>> THEN Plan("nothing", <<>>, NoWorktree)
  ELSE IF StartsWith(text, CREATE_NEW)
  THEN Plan("force_create", TrimStartMatches(text, CREATE_NEW), NoWorktree)
  ELSE LET m == FindWorktree(wl, text) IN
       IF IsSome(m) THEN Plan("switch", text, Unwrap(m))
       ELSE Plan("create", text, NoWorktree)

\* Delete without the is_main test
DeletePlan_NoMainCheck(wl, text) ==
  LET m == FindWorktree(wl, text) IN
  IF ~IsSome(m) THEN Plan("nothing", text, NoWorktree) ELSE Plan("remove", text, Unwrap(m))

\* show_worktree_selector, lines 146-169: what a Delete leads to
DeletePlan(wl, text) ==
  LET m == FindWorktree(wl, text) IN
  IF ~IsSome(m) THEN Plan("nothing", text, NoWorktree)
  ELSE IF Unwrap(m).is_main THEN Plan("refuse_main", text, Unwrap(m))
  ELSE Plan("remove", text, Unwrap(m))

\* a match in which Cancel falls through to the creation of a worktree
WorktreePlan_CancelCreates(wl, act) ==
  IF act.tag = "Delete" THEN DeletePlan(wl, act.text)
  ELSE IF act.tag = "Select" THEN SelectPlan(wl, act.text)
  ELSE Plan("create", <<"a">>, NoWorktree)

\* show_worktree_selector: `match action`
WorktreePlan(wl, act) ==
  IF act.tag = "Select" THEN SelectPlan(wl, act.text)
  ELSE IF act.tag = "Delete" THEN DeletePlan(wl, act.text)
  ELSE Plan("nothing", <<>>, NoWorktree)

\* show_project_selector, lines 40-53: the project a Select leads to (an index
\* into projects, 0 for none): the items are matched again and the top match taken
ProjectPick(its, act) ==
  IF act.tag # "Select" THEN 0
  ELSE LET scored == [i \in 1..Len(its) |->
                        [item |-> i, m |-> FuzzyMatch(its[i], act.text)]]
           hits == SelectSeq(scored, LAMBDA x : IsSome(x.m))
           ranked == SortByScoreDesc([i \in 1..Len(hits) |->
                        [item |-> hits[i].item, score |-> Unwrap(hits[i].m)]])
       IN IF ranked = <<>> THEN 0 ELSE ranked[1].item

\* the `pnpm install` run after a switch
PnpmInstall(path, ok) == <<Ev(IF ok THEN "deps_installed" ELSE "pnpm_warning", path, <<>>, ok)>>

-----------------------------------------------------------------------------
(* Inputs of the model *)

PathR == <<"/","r">>
PathW == <<"/","w">>
PathV == <<"/","v">>
BranchM == <<"m">>
BranchAB == <<"a","b">>
BranchBA == <<"b","a">>
BranchAM == <<"a","M">>
BranchUpperM == <<"M">>
BranchSentinel == CREATE_NEW \o <<"a">>

WorktreeLine(p) == WORKTREE_ \o p
BranchLine(b) == BRANCH_ \o REFS_HEADS \o b
HeadLine == <<"H","E","A","D"," ","0">>

\* what `git worktree list --porcelain` hands to the selector
Listings ==
  { \* a repository with one linked worktree
    <<WorktreeLine(PathR), HeadLine, BranchLine(BranchM), <<>>,
      WorktreeLine(PathW), HeadLine, BranchLine(BranchAB), <<>>>>,
    \* a bare repository with one linked worktree
    <<WorktreeLine(PathR), BARE, <<>>,
      WorktreeLine(PathW), HeadLine, BranchLine(BranchAB), <<>>>>,
    \* a record carrying both the bare marker and a branch line
    <<WorktreeLine(PathR), BARE, BranchLine(BranchM), <<>>,
      WorktreeLine(PathW), BranchLine(BranchAB), <<>>>>,
    \* a branch whose name starts with the text "__CREATE_NEW__"
    <<WorktreeLine(PathR), BranchLine(BranchM), <<>>,
      WorktreeLine(PathW), BranchLine(BranchSentinel), <<>>>>,
    \* three worktrees whose branches share letters
    <<WorktreeLine(PathR), BranchLine(BranchBA), <<>>,
      WorktreeLine(PathW), BranchLine(BranchAB), <<>>,
      WorktreeLine(PathV), BranchLine(BranchAM), <<>>>>,
    \* two branches that differ in letter case only
    <<WorktreeLine(PathR), BranchLine(BranchM), <<>>,
      WorktreeLine(PathW), BranchLine(BranchUpperM), <<>>>>,
    \* a detached checkout only
    <<WorktreeLine(PathR), HeadLine, DETACHED, <<>>>> }

\* the characters typed into the query
TypeChars == {"a", "b", "M"}

\* the branch arguments of `wt <branch>`
BranchArgs == { <<"a">>, <<"a","/","b">> }

\* the registry files an invocation may find
InitialRegistries ==
  { EmptyMap,
    (RepoA :> ProjectInfo(RepoA, 0)) @@ (RepoB :> ProjectInfo(RepoB, 0)) }

-----------------------------------------------------------------------------
(* State *)

\* enable_raw_mode and EnterAlternateScreen in force, or neither
TermOn == [raw |-> TRUE, alt |-> TRUE]
TermOff == [raw |-> FALSE, alt |-> FALSE]

NoPrev == [valid |-> FALSE, repo |-> <<>>, branch |-> <<>>, ret |-> "none", target |-> <<>>]

\* the path a log reports as ready, <<>> when it reports none
ReadyPath(l) ==
  IF HasEv(l, "ready") THEN l[CHOOSE i \in EvIndexes(l, "ready") : TRUE].path ELSE <<>>

selVars == <<mode, worktrees, projects, items, input, lastKey, action, terminal, listing>>
diskVars == <<fs, wts, registry>>
parseVars == <<parseIn, parseOut>>
raceVars == <<procs, overlap>>
pathVars == <<pathIn, pathOut>>

InitCommon ==
  /\ mode = "none"
  /\ repo = <<>>
  /\ argBranch = <<>>
  /\ worktrees = <<>>
  /\ projects = <<>>
  /\ items = <<>>
  /\ input = <<>>
  /\ lastKey = NoKey
  /\ action = NoAction
  /\ terminal = TermOff
  /\ listing = <<>>
  /\ fs = {}
  /\ wts = {}
  /\ clock = 1
  /\ log = <<>>
  /\ ret = "none"
  /\ prev = NoPrev
  /\ parseOut = <<>>
  /\ overlap = FALSE
  /\ pathOut = <<>>

Init ==
  /\ InitCommon
  /\ procs = <<>>
  /\ pathIn = <<>>
  /\ pc = "start"
  /\ registry \in InitialRegistries
  /\ dbFault \in BOOLEAN
  /\ parseIn = <<>>

AllowCreate == mode = "worktree"
AllowDelete == mode = "worktree"

-----------------------------------------------------------------------------
(* main.rs: main and handle_git_repo *)

\* `wt <branch>` inside a repository: save_project, then handle_worktree follows
CliBranch(r) ==
  /\ pc = "start"
  /\ \E b \in BranchArgs :
       LET s == SaveProject(registry, r, clock, dbFault) IN
       /\ registry' = s.reg
       /\ repo' = r
       /\ argBranch' = b
       /\ log' = <<Ev("save_project", <<>>, r, s.wrote)>>
       /\ IF s.ret = "Err" THEN pc' = "done" /\ ret' = "Err"
                           ELSE pc' = "orch" /\ ret' = "none"
  /\ UNCHANGED <<selVars, fs, wts, clock, dbFault, prev, parseVars, raceVars, pathVars>>

MainGitRepoBranch == \E r \in Repos : CliBranch(r)

\* `wt` inside a repository: save_project, then show_worktree_selector up to
\* the start of the session
MainGitRepoSelect ==
  /\ pc = "start"
  /\ \E r \in Repos, lines \in Listings, listed \in BOOLEAN :
       LET s == SaveProject(registry, r, clock, dbFault)
           wl == ParseWorktreeList(lines)
       IN
       /\ registry' = s.reg
       /\ repo' = r
       /\ log' = <<Ev("save_project", <<>>, r, s.wrote)>>
       /\ IF s.ret = "Err" \/ ~listed
          THEN /\ pc' = "done" /\ ret' = "Err"
               /\ UNCHANGED <<mode, worktrees, items, terminal, listing>>
          ELSE /\ pc' = "selecting" /\ ret' = "none"
               /\ mode' = "worktree"
               /\ listing' = lines
               /\ worktrees' = wl
               /\ items' = WorktreeItems(wl)
               /\ terminal' = TermOn
  /\ UNCHANGED <<argBranch, projects, input, lastKey, action, fs, wts, clock, dbFault,
                 prev, parseVars, raceVars, pathVars>>

\* `wt` outside a repository: show_project_selector up to the start of the session
MainNoRepo ==
  /\ pc = "start"
  /\ IF dbFault
     THEN /\ pc' = "done" /\ ret' = "Err" /\ log' = <<>>
          /\ UNCHANGED <<mode, projects, items, terminal>>
     ELSE IF DOMAIN registry = {}
     THEN /\ pc' = "done" /\ ret' = "Ok"
          /\ log' = <<Ev("no_projects_found", <<>>, <<>>, TRUE)>>
          /\ UNCHANGED <<mode, projects, items, terminal>>
     ELSE \E pl \in GetProjects(registry) :
          /\ pc' = "selecting" /\ ret' = "none" /\ log' = <<>>
          /\ mode' = "project"
          /\ projects' = pl
          /\ items' = ProjectItems(pl)
          /\ terminal' = TermOn
  /\ UNCHANGED <<repo, argBranch, worktrees, listing, input, lastKey, action, diskVars, clock,
                 dbFault, prev, parseVars, raceVars, pathVars>>

-----------------------------------------------------------------------------
(* tui.rs: the session loop *)

\* filtered_items as the loop body computes it from the current query
filtered_items == FilteredItems(items, input)

\* the labels of a filtered list
Labels(filtered) == [i \in 1..Len(filtered) |-> filtered[i].item]

KeyStep(key) ==
  /\ pc = "selecting"
  /\ LET r == OnEvent(items, AllowCreate, AllowDelete, input, key) IN
     /\ input' = r.input
     /\ lastKey' = key
     /\ IF IsSome(r.result)
        THEN action' = Unwrap(r.result) /\ pc' = "matched" /\ terminal' = TermOff
        ELSE action' = action /\ pc' = pc /\ terminal' = terminal
  /\ UNCHANGED <<mode, repo, argBranch, worktrees, listing, projects, items, diskVars, clock,
                 dbFault, log, ret, prev, parseVars, raceVars, pathVars>>

CtrlC == Key("Char", "c", TRUE, "Press")
CtrlB == Key("Char", "b", TRUE, "Press")
CtrlX == Key("Char", "x", TRUE, "Press")

TypeChar == \E c \in TypeChars : Len(input) < MaxInput /\ KeyStep(Key("Char", c, FALSE, "Press"))
PressCtrlC == KeyStep(CtrlC)
PressCtrlB == KeyStep(CtrlB)
PressCtrlX == KeyStep(CtrlX)
PressEsc == KeyStep(Key("Esc", "", FALSE, "Press"))
PressBackspace == KeyStep(Key("Backspace", "", FALSE, "Press"))
PressTab == KeyStep(Key("Tab", "", FALSE, "Press"))
PressEnter == KeyStep(Key("Enter", "", FALSE, "Press"))
\* a character with Control that is none of c, b, x
PressCtrlOther == Len(input) < MaxInput /\ KeyStep(Key("Char", "a", TRUE, "Press"))
\* a key the match does not name, a key release, an event that is no key event
OtherEvent ==
  \E key \in { Key("Left", "", FALSE, "Press"), Key("Enter", "", FALSE, "Release"),
               Key("Resize", "", FALSE, "Press") } : KeyStep(key)

\* terminal.draw(..)? or event::read()? returns an error: run_input_selector
\* returns it, and so do the selector wrapper and main
TerminalError ==
  /\ pc = "selecting"
  /\ \E which \in {"draw", "read"} :
       log' = Append(log, Ev("error", <<>>, <<which>>, FALSE))
  /\ lastKey' = NoKey
  /\ pc' = "done"
  /\ ret' = "Err"
  /\ UNCHANGED <<mode, repo, argBranch, worktrees, projects, items, input, action,
                 terminal, listing,
                 diskVars, clock, dbFault, prev, parseVars, raceVars, pathVars>>

\* main.rs: the ctrlc handler run on a process interrupt during the session:
\* disable_raw_mode, LeaveAlternateScreen, process::exit(0)
Interrupt ==
  /\ pc = "selecting"
  /\ terminal' = TermOff
  /\ log' = Append(log, Ev("interrupt", <<>>, <<>>, TRUE))
  /\ lastKey' = NoKey
  /\ pc' = "done"
  /\ ret' = "Ok"
  /\ UNCHANGED <<mode, repo, argBranch, worktrees, projects, items, input, action,
                 listing, diskVars, clock, dbFault, prev, parseVars, raceVars, pathVars>>

-----------------------------------------------------------------------------
(* tui.rs: after the session *)

Finish(l, r) ==
  /\ log' = log \o l
  /\ ret' = r
  /\ pc' = "done"

\* show_worktree_selector: Select leading to handle_worktree (lines 110-113, 139-143)
DispatchCreate ==
  /\ pc = "matched" /\ mode = "worktree"
  /\ LET plan == WorktreePlan(worktrees, action) IN
     /\ plan.kind \in {"force_create", "create"}
     /\ \E env \in Envs(clock, dbFault) :
          LET o == HandleWorktree(fs, wts, registry, repo, plan.branch, env) IN
          /\ fs' = o.fs /\ wts' = o.wts /\ registry' = o.reg
          /\ Finish(<<Ev("creating_new_worktree", <<>>, plan.branch,
                         plan.kind = "force_create")>> \o o.log, o.ret)
  /\ UNCHANGED <<selVars, repo, argBranch, clock, dbFault, prev, parseVars, raceVars, pathVars>>

\* show_worktree_selector: Select of an existing worktree (lines 120-138)
DispatchSwitch ==
  /\ pc = "matched" /\ mode = "worktree"
  /\ LET plan == WorktreePlan(worktrees, action) IN
     /\ plan.kind = "switch"
     /\ \E ok \in BOOLEAN :
          Finish(<<Ev("switching_to_worktree", plan.wt.path, plan.wt.branch, TRUE)>>
                 \o PnpmInstall(plan.wt.path, ok), "Ok")
  /\ UNCHANGED <<selVars, repo, argBranch, diskVars, clock, dbFault, prev, parseVars, raceVars, pathVars>>

\* a removal that answers a failure with a second, forced removal
RemoveEvents_Retry(wt, ok) ==
  <<Ev("deleting_worktree", wt.path, wt.branch, TRUE),
    Ev("remove_worktree", wt.path, wt.branch, ok)>>
  \o (IF ok THEN <<>> ELSE <<Ev("remove_worktree", wt.path, <<"force">>, TRUE)>>)
  \o <<Ev("worktree_deleted", wt.path, wt.branch, TRUE)>>

\* the else arm of `if wt.is_main` (lines 156-166): one git::remove_worktree,
\* then the confirmation or the error with its two hints
RemoveEvents(wt, ok) ==
  <<Ev("deleting_worktree", wt.path, wt.branch, TRUE),
    Ev("remove_worktree", wt.path, wt.branch, ok)>>
  \o (IF ok
      THEN <<Ev("worktree_deleted", wt.path, wt.branch, TRUE)>>
      ELSE <<Ev("failed_to_delete", wt.path, wt.branch, FALSE),
             Ev("uncommitted_changes_tip", <<>>, <<>>, FALSE),
             Ev("force_delete_command", wt.path, <<>>, FALSE)>>)

\* show_worktree_selector: Delete (lines 146-169); git::remove_worktree succeeds or fails
DispatchDelete ==
  /\ pc = "matched" /\ mode = "worktree"
  /\ LET plan == WorktreePlan(worktrees, action) IN
     /\ plan.kind \in {"refuse_main", "remove"}
     /\ IF plan.kind = "refuse_main"
        THEN Finish(<<Ev("cannot_delete_main", plan.wt.path, plan.wt.branch, FALSE)>>, "Ok")
        ELSE \E ok \in BOOLEAN : Finish(RemoveEvents(plan.wt, ok), "Ok")
  /\ UNCHANGED <<selVars, repo, argBranch, diskVars, clock, dbFault, prev, parseVars, raceVars, pathVars>>

\* show_worktree_selector: Cancel, an empty Select, a Delete that finds nothing
DispatchNothing ==
  /\ pc = "matched" /\ mode = "worktree"
  /\ WorktreePlan(worktrees, action).kind = "nothing"
  /\ Finish(<<>>, "Ok")
  /\ UNCHANGED <<selVars, repo, argBranch, diskVars, clock, dbFault, prev, parseVars, raceVars, pathVars>>

\* show_project_selector, lines 39-80
DispatchProject ==
  /\ pc = "matched" /\ mode = "project"
  /\ LET idx == ProjectPick(items, action) IN
     IF idx = 0 THEN Finish(<<>>, "Ok")
     ELSE \E ok \in BOOLEAN :
          Finish(<<Ev("switching_to_project", projects[idx].path, projects[idx].name, TRUE)>>
                 \o PnpmInstall(projects[idx].path, ok), "Ok")
  /\ UNCHANGED <<selVars, repo, argBranch, diskVars, clock, dbFault, prev, parseVars, raceVars, pathVars>>

-----------------------------------------------------------------------------
(* main.rs: handle_git_repo calling handle_worktree with the branch argument *)

Orchestrate ==
  /\ pc = "orch"
  /\ \E env \in Envs(clock, dbFault) :
       LET o == HandleWorktree(fs, wts, registry, repo, argBranch, env) IN
       /\ fs' = o.fs /\ wts' = o.wts /\ registry' = o.reg
       /\ Finish(o.log, o.ret)
  /\ UNCHANGED <<selVars, repo, argBranch, clock, dbFault, prev, parseVars, raceVars, pathVars>>

-----------------------------------------------------------------------------
(* The environment between and during invocations *)

\* the next invocation of the tool; it remembers the call just made
Again ==
  /\ pc = "done"
  /\ pc' = "start"
  /\ prev' = IF HasEv(log, "handle_worktree")
             THEN [valid |-> TRUE, repo |-> repo, branch |-> argBranch, ret |-> ret,
                   target |-> ReadyPath(log)]
             ELSE NoPrev
  /\ log' = <<>>
  /\ ret' = "none"
  /\ UNCHANGED <<selVars, repo, argBranch, diskVars, clock, dbFault, parseVars, raceVars, pathVars>>

Tick ==
  /\ clock < MaxClock
  /\ clock' = clock + 1
  /\ UNCHANGED <<pc, selVars, repo, argBranch, diskVars, dbFault, log, ret, prev, parseVars, raceVars, pathVars>>

\* the registry file becomes unreadable, or readable again; what was true of
\* the previous call's environment no longer is
RegistryFault ==
  /\ dbFault' = ~dbFault
  /\ prev' = NoPrev
  /\ UNCHANGED <<pc, selVars, repo, argBranch, diskVars, clock, log, ret, parseVars, raceVars, pathVars>>

-----------------------------------------------------------------------------
(* git.rs: parse_worktree_list on its own *)

ParseAlphabet ==
  { WorktreeLine(PathR), WorktreeLine(PathW), BranchLine(BranchM), BranchLine(BranchAB),
    BARE, DETACHED, <<>> }

LineSeqs == UNION { [1..n -> ParseAlphabet] : n \in 0..MaxLines }

InitParse ==
  /\ InitCommon
  /\ procs = <<>>
  /\ pathIn = <<>>
  /\ pc = "parse"
  /\ registry = EmptyMap
  /\ dbFault = FALSE
  /\ parseIn \in LineSeqs

Parse ==
  /\ pc = "parse"
  /\ parseOut' = ParseWorktreeList(parseIn)
  /\ pc' = "parsed"
  /\ UNCHANGED <<selVars, repo, argBranch, diskVars, clock, dbFault, log, ret, prev, parseIn,
                 raceVars, pathVars>>

-----------------------------------------------------------------------------
(* db.rs: two invocations of the tool sharing db.json *)

Procs == {1, 2}
Other(i) == 3 - i

\* the registry calls an invocation makes
Calls == {"save_project", "update_last_accessed"}

\* the first invocation runs in one repository, the second in the other
ProcRepo(i) == IF i = 1 THEN RepoA ELSE RepoB

\* a load that finds no file whatever was written
LoadDb_Empty(file) == EmptyMap

\* load_db: the whole file, read and parsed
LoadDb(file) == file

\* what the call writes back from the Database it loaded
Modified(call, db, repo_path, now) ==
  IF call = "save_project" THEN SaveProject(db, repo_path, now, FALSE)
  ELSE UpdateLastAccessed(db, repo_path, now, FALSE)

InitRace ==
  /\ InitCommon
  /\ pathIn = <<>>
  /\ pc = "race"
  /\ registry \in InitialRegistries
  /\ dbFault = FALSE
  /\ parseIn = <<>>
  /\ procs \in [Procs -> { [pc |-> "idle", call |-> c, db |-> EmptyMap, now |-> 0,
                            wrote |-> FALSE] : c \in Calls }]

\* `let mut db = load_db()?` of save_project or update_last_accessed
Load(i) ==
  /\ pc = "race"
  /\ procs[i].pc = "idle"
  /\ procs' = [procs EXCEPT ![i].pc = "loaded", ![i].db = LoadDb(registry)]
  /\ overlap' = (overlap \/ procs[Other(i)].pc = "loaded")
  /\ UNCHANGED <<pc, selVars, repo, argBranch, diskVars, clock, dbFault, log, ret, prev,
                 parseVars, pathVars>>

\* the rest of the call: the change to the loaded Database and save_db, which
\* replaces the whole file
WriteBack(i) ==
  /\ pc = "race"
  /\ procs[i].pc = "loaded"
  /\ LET m == Modified(procs[i].call, procs[i].db, ProcRepo(i), clock) IN
     /\ procs' = [procs EXCEPT ![i].pc = "done", ![i].db = m.reg, ![i].now = clock,
                                ![i].wrote = m.wrote]
     /\ registry' = IF m.wrote THEN m.reg ELSE registry
  /\ UNCHANGED <<pc, selVars, repo, argBranch, fs, wts, clock, dbFault, log, ret, prev,
                 parseVars, overlap, pathVars>>

-----------------------------------------------------------------------------
(* db.rs: one process calling save_project and update_last_accessed *)

\* the repository paths the calls are made with
DbRepos == {RepoA, RepoB, RepoQ}

InitDb ==
  /\ InitCommon
  /\ pc = "db"
  /\ registry \in InitialRegistries
  /\ dbFault = FALSE
  /\ parseIn = <<>>
  /\ procs = <<>>
  /\ pathIn = <<>>

\* db::save_project(repo_path)
DbSave ==
  /\ pc = "db"
  /\ \E r \in DbRepos :
       LET s == SaveProject(registry, r, clock, dbFault) IN
       /\ registry' = s.reg
       /\ ret' = s.ret
       /\ log' = <<Ev("save_project", <<>>, r, s.wrote)>>
  /\ pc' = "db_done"
  /\ UNCHANGED <<selVars, repo, argBranch, fs, wts, clock, dbFault, prev, parseVars,
                 raceVars, pathVars>>

\* db::update_last_accessed(repo_path)
DbTouch ==
  /\ pc = "db"
  /\ \E r \in DbRepos :
       LET u == UpdateLastAccessed(registry, r, clock, dbFault) IN
       /\ registry' = u.reg
       /\ ret' = u.ret
       /\ log' = <<Ev("update_last_accessed", <<>>, r, u.wrote)>>
  /\ pc' = "db_done"
  /\ UNCHANGED <<selVars, repo, argBranch, fs, wts, clock, dbFault, prev, parseVars,
                 raceVars, pathVars>>

\* the call has returned; the process goes on to its next call
DbReturn ==
  /\ pc = "db_done"
  /\ pc' = "db"
  /\ log' = <<>>
  /\ ret' = "none"
  /\ UNCHANGED <<selVars, repo, argBranch, diskVars, clock, dbFault, prev, parseVars,
                 raceVars, pathVars>>

-----------------------------------------------------------------------------
(* worktree.rs: the path functions on their own *)

\* the branch names handed to get_worktree_path
PathBranches == BranchArgs \cup { <<"m">>, <<"/","x">> }

InitPath ==
  /\ InitCommon
  /\ pc = "path"
  /\ registry = EmptyMap
  /\ dbFault = FALSE
  /\ parseIn = <<>>
  /\ procs = <<>>
  /\ pathIn \in [p1 : HashPaths, p2 : HashPaths, branch : PathBranches]

\* one call of get_worktree_base on each path and of get_worktree_path on the
\* first path and the branch; the function is called at most twice
PathCall ==
  /\ pc = "path"
  /\ Len(pathOut) < 2
  /\ pathOut' = Append(pathOut, [base1 |-> GetWorktreeBase(pathIn.p1),
                                  base2 |-> GetWorktreeBase(pathIn.p2),
                                  path |-> GetWorktreePath(pathIn.p1, pathIn.branch)])
  /\ UNCHANGED <<pc, selVars, repo, argBranch, diskVars, clock, dbFault, log, ret, prev,
                 parseVars, raceVars, pathIn>>

-----------------------------------------------------------------------------
(* Specifications *)

\* one invocation of the tool
Next ==
  \/ MainGitRepoBranch \/ MainGitRepoSelect \/ MainNoRepo
  \/ TypeChar \/ PressCtrlC \/ PressCtrlB \/ PressCtrlX \/ PressEsc
  \/ PressBackspace \/ PressTab \/ PressEnter \/ PressCtrlOther \/ OtherEvent
  \/ TerminalError
  \/ DispatchCreate \/ DispatchSwitch \/ DispatchDelete \/ DispatchNothing
  \/ DispatchProject
  \/ Orchestrate

Spec == Init /\ [][Next]_vars

\* `wt <branch>` invoked again and again in one repository, with the clock and
\* the registry file changing underneath
NextOrch == CliBranch(RepoA) \/ Orchestrate \/ Again \/ Tick \/ RegistryFault

SpecOrch == Init /\ [][NextOrch]_vars

\* the parser applied to a line sequence
NextParse == Parse

SpecParse == InitParse /\ [][NextParse]_vars

\* a selector session with everything that can end it: the keys, a failing
\* terminal, a process interrupt
NextTerm ==
  \/ MainGitRepoSelect \/ MainNoRepo
  \/ TypeChar \/ PressCtrlC \/ PressCtrlB \/ PressCtrlX \/ PressEsc
  \/ PressBackspace \/ PressTab \/ PressEnter \/ PressCtrlOther \/ OtherEvent
  \/ TerminalError \/ Interrupt

SpecTerm == Init /\ [][NextTerm]_vars

\* two invocations reading and writing db.json in any interleaving
NextRace == (\E i \in Procs : Load(i)) \/ (\E i \in Procs : WriteBack(i)) \/ Tick

SpecRace == InitRace /\ [][NextRace]_vars

\* any sequence of registry calls by one process, the clock advancing and the
\* file becoming unreadable and readable again
NextDb == DbSave \/ DbTouch \/ DbReturn \/ Tick \/ RegistryFault

SpecDb == InitDb /\ [][NextDb]_vars

\* the path functions applied to repository paths and a branch
NextPath == PathCall

SpecPath == InitPath /\ [][NextPath]_vars

-----------------------------------------------------------------------------
(* Properties of the selector session *)

EnterPress == Key("Enter", "", FALSE, "Press")

\* allowDelete, a non-empty query, and a candidate whose label without its
\* annotation equals the query up to letter case
DeleteAccepted ==
  /\ AllowDelete
  /\ input # <<>>
  /\ \E i \in 1..Len(items) : EqIgnoreAsciiCase(SplitFirst(items[i], <<" ", "(">>), input)

\* C1: a session ends with Delete only on Ctrl+X pressed in a state where
\* allowDelete holds, the query is non-empty and a candidate's label without
\* its annotation equals the query up to letter case; in every other state
\* Ctrl+X leaves the query unchanged and the session running.
C1_DeleteOnlyOnExactMatch ==
  [][ pc = "selecting" =>
        /\ (pc' = "matched" /\ action'.tag = "Delete")
             => (lastKey' = CtrlX /\ DeleteAccepted)
        /\ (lastKey' = CtrlX /\ ~DeleteAccepted)
             => (input' = input /\ pc' = "selecting") ]_vars

C1_Witness ==
  /\ pc = "matched" /\ action.tag = "Delete" /\ lastKey = CtrlX
  /\ input # action.text

\* C2: a create request is reached only by Ctrl+B pressed with allowCreate
\* and a non-empty query; no other key produces it.
C2_CreateOnlyByCtrlB ==
  (pc = "done" /\ HasEv(log, "creating_new_worktree"))
    => (lastKey = CtrlB /\ AllowCreate /\ input # <<>>)

\* C3: when Ctrl+B ends a worktree-selector session with query q, the branch
\* name handed to handle_worktree is exactly q.
C3_CreateHandsOverQuery ==
  (pc = "done" /\ mode = "worktree" /\ lastKey = CtrlB /\ action.tag = "Select")
    => \A i \in EvIndexes(log, "handle_worktree") : log[i].text = input

\* C4: Enter with a non-empty filtered set ends the session with Select of the
\* first filtered candidate's label without its annotation; Enter with an empty
\* filtered set leaves the query unchanged and the session running.
C4_EnterSelectsTopOrNothing ==
  [][ (pc = "selecting" /\ lastKey' = EnterPress) =>
        LET filtered == FilteredItems(items, input) IN
        IF filtered # <<>>
        THEN /\ pc' = "matched"
             /\ action' = Select(SplitFirst(filtered[1].item, <<" ", "(">>))
        ELSE /\ pc' = "selecting"
             /\ input' = input
             /\ action' = action ]_vars

C4_Witness ==
  /\ pc = "matched" /\ lastKey = EnterPress /\ action.tag = "Select"
  /\ input # <<>> /\ action.text # input
  /\ Len(FilteredItems(items, input)) < Len(items)

-----------------------------------------------------------------------------
(* Properties of the orchestrator *)

AddIndexes(l) == EvIndexes(l, "add_existing") \cup EvIndexes(l, "add_new")
OrchestratorRan == pc = "done" /\ HasEv(log, "handle_worktree")

\* C5: after a successful call for (repoRoot, branch), the call that follows
\* immediately with the same arguments makes no backend add call, writes the
\* registry timestamp, runs provisioning and reports the same target path.
C5_SecondCallIdempotent ==
  (OrchestratorRan /\ prev.valid /\ prev.ret = "Ok"
     /\ prev.repo = repo /\ prev.branch = argBranch)
    => /\ AddIndexes(log) = {}
       /\ \E i \in EvIndexes(log, "touch") : log[i].ok /\ log[i].text = repo
       /\ HasEv(log, "setup")
       /\ ReadyPath(log) = prev.target
       /\ prev.target = GetWorktreePath(repo, argBranch)
       /\ ret = "Ok"

C5_Witness ==
  /\ OrchestratorRan /\ prev.valid /\ prev.ret = "Ok"
  /\ prev.repo = repo /\ prev.branch = argBranch
  /\ HasEv(log, "exists") /\ ret = "Ok"

\* C6: when the target does not exist, the first backend call is the add for
\* the existing branch; if and only if it fails, exactly one add creating a
\* new branch follows, with the same target path and branch name and before
\* the failure is reported; if the first add succeeds, no new-branch add is made.
C6_FallbackOrder ==
  (OrchestratorRan /\ ~HasEv(log, "exists"))
    => LET ex == EvIndexes(log, "add_existing")
           nw == EvIndexes(log, "add_new")
       IN /\ Cardinality(ex) <= 1 /\ Cardinality(nw) <= 1
          /\ HasEv(log, "mkdir") => Cardinality(ex) = 1
          /\ \A i \in ex :
               /\ log[i].path = GetWorktreePath(repo, argBranch)
               /\ log[i].text = argBranch
               /\ \A j \in nw : i < j
               /\ log[i].ok => nw = {}
               /\ ~log[i].ok =>
                    \E j \in nw :
                      /\ j = i + 1
                      /\ log[j].path = log[i].path
                      /\ log[j].text = log[i].text
                      /\ \A k \in EvIndexes(log, "error") : j < k
          /\ nw # {} => ex # {}

C6_Witness ==
  /\ OrchestratorRan
  /\ \E i \in EvIndexes(log, "add_existing") : ~log[i].ok
  /\ \E j \in EvIndexes(log, "add_new") : log[j].ok
  /\ ret = "Ok"

BothAddsFailed(l) ==
  /\ \E i \in EvIndexes(l, "add_existing") : ~l[i].ok
  /\ \E j \in EvIndexes(l, "add_new") : ~l[j].ok

\* C7: when both add attempts fail, the call returns an error, the registry
\* is left as it was, provisioning is not run, no target is reported as ready,
\* and the base directory created before the attempts stays in place.
C7_BothFailIsFatal ==
  [][ (pc = "orch" /\ pc' = "done" /\ BothAddsFailed(log')) =>
        /\ ret' = "Err"
        /\ registry' = registry
        /\ ~HasEv(log', "touch")
        /\ ~HasEv(log', "setup")
        /\ ~HasEv(log', "ready")
        /\ GetWorktreeBase(repo) \in fs'
        /\ wts' = wts ]_vars

C7_Witness ==
  /\ OrchestratorRan /\ BothAddsFailed(log) /\ ret = "Err"
  /\ GetWorktreeBase(repo) \in fs
  /\ GetWorktreePath(repo, argBranch) \notin fs

\* C10: whatever the setup command does (success, non-zero exit, failure to
\* spawn), provisioning returns success: a call in which the worktree exists
\* or was added and the registry update succeeded returns Ok.
C10_ProvisioningNeverFails ==
  OrchestratorRan =>
    /\ ~(\E i \in EvIndexes(log, "error") : log[i].text = <<"setup">>)
    /\ ( /\ (HasEv(log, "exists") \/ \E i \in AddIndexes(log) : log[i].ok)
         /\ HasEv(log, "touch") )
       => (ret = "Ok" /\ HasEv(log, "ready") /\ HasEv(log, "setup"))

C10_Witness ==
  /\ OrchestratorRan /\ ret = "Ok"
  /\ \E i \in EvIndexes(log, "setup_warning") : log[i].text = <<"spawn_error">>

-----------------------------------------------------------------------------
(* Properties of the worktree selector's dispatch *)

\* the worktree a Delete resolves to: the first whose branch equals the text
\* up to letter case (0 when there is none)
ResolvedIndex ==
  LET hits == { i \in 1..Len(worktrees) : EqIgnoreAsciiCase(worktrees[i].branch, action.text) }
  IN IF hits = {} THEN 0 ELSE CHOOSE i \in hits : \A j \in hits : i <= j

\* C8: a Delete resolving to a worktree flagged is_main is refused with the
\* "cannot delete main" message and backend remove is not called; backend
\* remove is called only for worktrees whose is_main flag is false.
C8_MainNeverRemoved ==
  (pc = "done" /\ mode = "worktree" /\ ret = "Ok")
    => /\ (action.tag = "Delete" /\ ResolvedIndex # 0 /\ worktrees[ResolvedIndex].is_main)
            => (HasEv(log, "cannot_delete_main") /\ ~HasEv(log, "remove_worktree"))
       /\ \A i \in EvIndexes(log, "remove_worktree") :
            /\ action.tag = "Delete" /\ ResolvedIndex # 0
            /\ ~worktrees[ResolvedIndex].is_main
            /\ log[i].path = worktrees[ResolvedIndex].path

C8_Witness ==
  /\ pc = "done" /\ action.tag = "Delete"
  /\ HasEv(log, "cannot_delete_main")
  /\ \E i \in 1..Len(worktrees) : ~worktrees[i].is_main

-----------------------------------------------------------------------------
(* Properties of the parser *)

IsPathLine(line) == StartsWith(line, <<"w","o","r","k","t","r","e","e"," ">>)
IsBranchLine(line) == StartsWith(line, <<"b","r","a","n","c","h"," ">>)

IsMarkerLine(line) == line \in { <<"b","a","r","e">>, <<"d","e","t","a","c","h","e","d">> }

\* the records of a line sequence: each starts at a path line and ends before
\* the next blank line or path line; a record is [path, branches, marked]
RECURSIVE RecordsOf(_, _, _)
RecordsOf(lines, open, cur) ==
  IF lines = <<>> THEN (IF open THEN <<cur>> ELSE <<>>)
  ELSE LET l == Head(lines) IN
       IF IsPathLine(l)
       THEN (IF open THEN <<cur>> ELSE <<>>)
            \o RecordsOf(Tail(lines), TRUE,
                         [path |-> Drop(l, 9), branches |-> <<>>, marked |-> FALSE])
       ELSE IF l = <<>>
       THEN (IF open THEN <<cur>> ELSE <<>>) \o RecordsOf(Tail(lines), FALSE, cur)
       ELSE IF open /\ IsBranchLine(l)
       THEN RecordsOf(Tail(lines), TRUE, [cur EXCEPT !.branches = Append(@, Drop(l, 7))])
       ELSE IF open /\ IsMarkerLine(l)
       THEN RecordsOf(Tail(lines), TRUE, [cur EXCEPT !.marked = TRUE])
       ELSE RecordsOf(Tail(lines), open, cur)

InputRecords ==
  RecordsOf(parseIn, FALSE, [path |-> <<>>, branches |-> <<>>, marked |-> FALSE])

\* the backend's format: every line belongs to a record, and a record holds
\* either one branch line or a bare/detached marker
WellFormedListing ==
  /\ parseIn # <<>> => IsPathLine(parseIn[1])
  /\ \A k \in 1..Len(InputRecords) :
       \/ Len(InputRecords[k].branches) = 1 /\ ~InputRecords[k].marked
       \/ InputRecords[k].branches = <<>> /\ InputRecords[k].marked

\* C9: every record of the input is returned, in order; a record without a
\* branch line is flagged as the main worktree, a record with a branch line
\* reports its branch without the "refs/heads/" prefix.
C9_EveryRecordReturned ==
  (pc = "parsed" /\ WellFormedListing) =>
    /\ Len(parseOut) = Len(InputRecords)
    /\ \A k \in 1..Len(InputRecords) :
         /\ parseOut[k].path = InputRecords[k].path
         /\ IF InputRecords[k].branches = <<>>
            THEN parseOut[k].is_main
            ELSE REFS_HEADS \o parseOut[k].branch
                   = InputRecords[k].branches[Len(InputRecords[k].branches)]

-----------------------------------------------------------------------------
(* Properties of the session loop as a whole *)

EscPress == Key("Esc", "", FALSE, "Press")

\* the key just read is one of the five terminating transitions in the state
\* it was read in
ExplicitExit(key) ==
  \/ key = EscPress
  \/ key = CtrlC
  \/ key = EnterPress /\ filtered_items # <<>>
  \/ key = CtrlB /\ AllowCreate /\ input # <<>>
  \/ key = CtrlX /\ DeleteAccepted

\* the action of a finished session is never replaced
ActionKept == pc \in {"matched", "done"} => action' = action

-----------------------------------------------------------------------------
(* Properties of the filtered set *)

BackspacePress == Key("Backspace", "", FALSE, "Press")

\* C12: with an empty query the filtered set is the candidate list in its
\* original order, every score being 0, also when the query became empty by
\* deleting what was typed.
C12_EmptyQueryKeepsOrder ==
  (pc = "selecting" /\ input = <<>>) =>
    /\ Labels(filtered_items) = items
    /\ \A i \in 1..Len(filtered_items) : filtered_items[i].score = 0

C12_Witness ==
  /\ pc = "selecting" /\ input = <<>> /\ lastKey = BackspacePress
  /\ Len(items) = 3 /\ Labels(filtered_items) = items

\* the candidates the matcher gives a score for
Matching(its, q) == { i \in 1..Len(its) : IsSome(FuzzyMatch(its[i], q)) }

\* C13: with a non-empty query the filtered set holds exactly the candidates
\* with a defined score, each with that score, in descending order of score,
\* candidates of equal score in their original relative order.
C13_FilteredSortedStable ==
  (pc = "selecting" /\ input # <<>>) =>
    LET f == filtered_items
        m == Matching(items, input)
    IN /\ Len(f) = Cardinality(m)
       /\ \E pos \in [1..Len(f) -> m] :
            /\ \A k \in 1..Len(f) :
                 /\ f[k].item = items[pos[k]]
                 /\ f[k].score = Unwrap(FuzzyMatch(items[pos[k]], input))
            /\ \A k, l \in 1..Len(f) :
                 k < l => \/ f[k].score > f[l].score
                          \/ f[k].score = f[l].score /\ pos[k] < pos[l]

C13_Witness ==
  /\ pc = "selecting" /\ input # <<>>
  /\ Len(filtered_items) = 3
  /\ filtered_items[1].score = filtered_items[2].score
  /\ filtered_items[2].score > filtered_items[3].score
  /\ Labels(filtered_items) # items

\* C14: for every candidate whose label (with or without its annotation)
\* equals the query up to letter case, that candidate is in the filtered set
\* and the exact-match detection reports an exact match.
C14_ExactLabelFilteredAndDetected ==
  (pc = "selecting" /\ input # <<>>) =>
    \A i \in 1..Len(items) :
      EqIgnoreAsciiCase(StripAnnotation(items[i]), input) =>
        /\ \E k \in 1..Len(filtered_items) : filtered_items[k].item = items[i]
        /\ HasExactMatch(items, input)

-----------------------------------------------------------------------------
(* Properties of the selector-driven delete *)

\* the backend remove calls of a log that failed
FailedRemoves(l) == { i \in EvIndexes(l, "remove_worktree") : ~l[i].ok }

\* C15: when the backend remove of a selector-driven delete fails, the error
\* is printed, followed by the uncommitted-changes hint and the forced-removal
\* instruction for that worktree's path; the backend remove was called exactly
\* once, no deletion confirmation is printed and no backend add is made.
C15_RemoveFailureSurfaced ==
  (pc = "done" /\ FailedRemoves(log) # {}) =>
    /\ Cardinality(EvIndexes(log, "remove_worktree")) = 1
    /\ \E i \in FailedRemoves(log) :
         /\ Len(log) = i + 3
         /\ log[i + 1].ev = "failed_to_delete"
         /\ log[i + 2].ev = "uncommitted_changes_tip"
         /\ log[i + 3].ev = "force_delete_command"
         /\ log[i + 3].path = log[i].path
         /\ \E w \in 1..Len(worktrees) :
              /\ worktrees[w].path = log[i].path
              /\ ~worktrees[w].is_main
    /\ ~HasEv(log, "worktree_deleted")
    /\ AddIndexes(log) = {}
    /\ action.tag = "Delete"

C15_Witness ==
  /\ pc = "done" /\ FailedRemoves(log) # {}
  /\ HasEv(log, "force_delete_command")

-----------------------------------------------------------------------------
(* Properties of the registry under two invocations *)

BothDone == pc = "race" /\ \A i \in Procs : procs[i].pc = "done"

\* the change invocation i wrote is in the file
UpdatePresent(i) ==
  procs[i].wrote =>
    /\ ProcRepo(i) \in DOMAIN registry
    /\ registry[ProcRepo(i)].last_accessed = procs[i].now
    /\ registry[ProcRepo(i)].path = ProcRepo(i)

\* C16: when the two invocations run one after the other, the file holds the
\* update of each; an update is absent from the final file only when the
\* invocations overlapped, and the file is then exactly what one of them
\* wrote (last writer wins).
C16_SerialKeepsBothUpdates ==
  BothDone =>
    /\ ~overlap => \A i \in Procs : UpdatePresent(i)
    /\ (\E i \in Procs : procs[i].wrote) =>
         \E i \in Procs : procs[i].wrote /\ registry = procs[i].db

\* an interleaving in which both invocations wrote and one update is lost
C16_Witness ==
  /\ BothDone /\ overlap
  /\ \A i \in Procs : procs[i].wrote
  /\ \E i \in Procs : ~UpdatePresent(i) /\ registry = procs[Other(i)].db

-----------------------------------------------------------------------------
(* Properties of the path functions *)

-----------------------------------------------------------------------------
(* Properties of a cancelled session *)

\* the events of backend calls, orchestrator calls and commands
Effects(l) ==
  { i \in 1..Len(l) :
      l[i].ev \in {"add_existing", "add_new", "remove_worktree", "handle_worktree",
                   "mkdir", "setup", "deps_installed", "pnpm_warning", "touch"} }

\* C18: after a session that ended with Cancel, in the worktree selector or
\* the project selector, the invocation ends with success and nothing else
\* happens: no backend add or remove, no orchestrator call, no command, no
\* change on disk or in the registry.
C18_CancelDoesNothing ==
  [][ (pc = "matched" /\ action = Cancel) =>
        /\ pc' = "done" /\ ret' = "Ok"
        /\ log' = log /\ Effects(log') = {}
        /\ fs' = fs /\ wts' = wts /\ registry' = registry ]_vars

C18_Witness ==
  /\ pc = "done" /\ action = Cancel /\ mode = "worktree" /\ ret = "Ok"
  /\ Effects(log) = {} /\ Len(worktrees) > 0

-----------------------------------------------------------------------------
(* Properties of the keys the loop does not name *)

TabPress == Key("Tab", "", FALSE, "Press")

\* a key press the session acts on: a printable character, Backspace, Tab,
\* Enter, Ctrl+B, Ctrl+X, Escape, Ctrl+C
NamedKey(key) ==
  /\ key.kind = "Press"
  /\ \/ key.code = "Char" /\ ~key.ctrl
     \/ key \in {BackspacePress, TabPress, EnterPress, EscPress, CtrlB, CtrlX, CtrlC}

\* C19: an event that is none of the named keys, in particular a character
\* pressed with Control other than Ctrl+B, Ctrl+X and Ctrl+C, leaves the
\* query unchanged and the session running.
C19_OtherKeysIgnored ==
  [][ (pc = "selecting" /\ lastKey'.code # "None" /\ ~NamedKey(lastKey')) =>
        /\ input' = input
        /\ pc' = "selecting" ]_vars

\* C20: Tab with a non-empty filtered set makes the query the first filtered
\* candidate's label without its annotation, Tab with an empty filtered set
\* leaves the query as it is; either way no action is produced and the
\* session keeps running, and after a Tab that changed the query the
\* exact-match detection reports an exact match for the new query.
C20_TabCompletes ==
  [][ (pc = "selecting" /\ lastKey' = TabPress) =>
        /\ pc' = "selecting" /\ action' = NoAction
        /\ filtered_items # <<>> => input' = StripAnnotation(filtered_items[1].item)
        /\ filtered_items = <<>> => input' = input
        /\ input' # input => HasExactMatch(items', input') ]_vars

C20_Witness ==
  /\ pc = "selecting" /\ lastKey = TabPress /\ input # <<>>
  /\ HasExactMatch(items, input)
  /\ \E i \in 1..Len(items) :
       items[i] # StripAnnotation(items[i]) /\ StripAnnotation(items[i]) = input

-----------------------------------------------------------------------------
(* Properties of the terminal state *)

\* a session was started and is over
SessionOver == mode # "none" /\ pc \in {"matched", "done"}

\* C21: raw mode and the alternate screen taken at the start of a session are
\* given back on every way out of run_input_selector: an action, an error
\* from drawing or from reading an event, a process interrupt.
C21_TerminalRestored ==
  SessionOver => terminal = TermOff

-----------------------------------------------------------------------------
(* Properties of the help line *)

\* the help line of the state the loop is in
help_text == HelpLine(items, filtered_items, AllowCreate, AllowDelete, input)

OffersDelete == \E i \in 1..Len(help_text) : help_text[i] = "help_ctrl_x_delete"

\* C22: in every state the loop draws, the help line names the Delete key
\* exactly when Ctrl+X would be accepted there.
C22_HelpOffersDeleteIffAccepted ==
  pc = "selecting" => (OffersDelete <=> DeleteAccepted)

-----------------------------------------------------------------------------
(* Properties of the main worktree *)

\* the listing of a repository that is not bare
NonBareListing == listing # <<>> /\ \A i \in 1..Len(listing) : listing[i] # BARE

\* the path of the listing's first record, the original checkout
MainWorktreePath == Drop(listing[1], Len(WORKTREE_))

\* C23: for a listing of a non-bare repository the selector never calls the
\* backend remove on the main worktree, the first record of the listing.
C23_MainCheckoutNeverRemoved ==
  (mode = "worktree" /\ NonBareListing) =>
    \A i \in EvIndexes(log, "remove_worktree") : log[i].path # MainWorktreePath

-----------------------------------------------------------------------------
(* Properties of the registry calls of one process *)

\* the step is a call of the named function
DbCall(name) == pc = "db" /\ pc' = "db_done" /\ log'[1].ev = name

\* C24: update_last_accessed on a path the registry does not hold leaves the
\* file as it is and writes nothing; on a known path it changes that
\* record's last_accessed and nothing else.
C24_TouchFrame ==
  [][ DbCall("update_last_accessed") =>
        LET r == log'[1].text IN
        IF dbFault THEN registry' = registry /\ ret' = "Err" /\ ~log'[1].ok
        ELSE IF r \notin DOMAIN registry
        THEN registry' = registry /\ ~log'[1].ok /\ ret' = "Ok"
        ELSE /\ log'[1].ok /\ ret' = "Ok"
             /\ DOMAIN registry' = DOMAIN registry
             /\ \A k \in DOMAIN registry : k # r => registry'[k] = registry[k]
             /\ registry'[r].path = registry[r].path
             /\ registry'[r].name = registry[r].name
             /\ registry'[r].last_accessed = clock ]_vars

C24_Witness ==
  /\ pc = "db_done" /\ log[1].ev = "update_last_accessed"
  /\ ~log[1].ok /\ ret = "Ok"
  /\ registry # EmptyMap /\ log[1].text \notin DOMAIN registry

\* C29: whatever calls one process has made, the registry holds at most one
\* record per repository path, each record is stored under its own path and
\* named after the path's final segment, and save_project puts the record of
\* its path, new or replaced, with the current time and changes no other.
C29_RegistryWellFormed ==
  /\ [](\A k \in DOMAIN registry :
          /\ registry[k].path = k
          /\ registry[k].name = FileName(k)
          /\ \A j \in DOMAIN registry : registry[j].path = registry[k].path => j = k)
  /\ [][ (DbCall("save_project") /\ ~dbFault) =>
           LET r == log'[1].text IN
           /\ log'[1].ok /\ ret' = "Ok"
           /\ DOMAIN registry' = DOMAIN registry \cup {r}
           /\ \A k \in DOMAIN registry : k # r => registry'[k] = registry[k]
           /\ registry'[r] = [path |-> r, name |-> FileName(r), last_accessed |-> clock]
        ]_vars

C29_Witness ==
  /\ pc = "db_done" /\ log[1].ev = "save_project" /\ log[1].ok
  /\ Cardinality(DOMAIN registry) = 3
  /\ \E k \in DOMAIN registry :
       /\ k # log[1].text /\ FileName(k) = FileName(log[1].text)
       /\ registry[k].last_accessed < registry[log[1].text].last_accessed

-----------------------------------------------------------------------------
(* Properties of what Enter leads to *)

\* the session ended on Enter; the query is still the one Enter was pressed on
EndedOnEnter == pc = "done" /\ lastKey = EnterPress /\ action.tag = "Select"

\* C25: in the project selector the project switched to after Enter is the
\* one whose label was the first entry of the filtered set when Enter was
\* pressed.
C25_ProjectIsTopOfFilter ==
  (EndedOnEnter /\ mode = "project") =>
    \E i \in EvIndexes(log, "switching_to_project"), idx \in 1..Len(items) :
      /\ items[idx] = filtered_items[1].item
      /\ log[i].path = projects[idx].path

-----------------------------------------------------------------------------
(* Properties of repeated orchestrator calls *)

\* C26: after any sequence of calls on one repository, a call that reported
\* success for a branch did so with a backend worktree of that branch at the
\* branch's target path.
C26_SuccessMeansWorktree ==
  (OrchestratorRan /\ ret = "Ok") =>
    \E w \in wts :
      /\ w.path = GetWorktreePath(repo, argBranch)
      /\ w.branch = argBranch

\* C27: in the worktree selector the worktree reported after Enter on a
\* candidate is the one whose label was the first entry of the filtered set,
\* and no backend add or remove call is made.
C27_WorktreeIsTopOfFilter ==
  (EndedOnEnter /\ mode = "worktree") =>
    /\ AddIndexes(log) = {}
    /\ EvIndexes(log, "remove_worktree") = {}
    /\ \E i \in EvIndexes(log, "switching_to_worktree"), idx \in 1..Len(items) :
         /\ items[idx] = filtered_items[1].item
         /\ log[i].path = worktrees[idx].path

-----------------------------------------------------------------------------
(* Properties of the upsert at the start of an invocation *)

\* the invocation runs inside a repository and has got past save_project
PastUpsert ==
  /\ repo # <<>>
  /\ \/ pc \in {"orch", "selecting", "matched"}
     \/ pc = "done" /\ Len(log) > 1

====
